---- MODULE Spec2Model ----
(***************************************************************************)
(* Town Scorecard Generator (src/app.py).                                  *)
(*                                                                         *)
(* A text is a sequence of one-character strings, so that substring        *)
(* tests, upper/lower casing and stripping are computed character by       *)
(* character as Python and pandas compute them.  A cell of a dataframe is  *)
(* a record [k, n, d, s]: k is "nan" (missing), "num" (number n), "str"    *)
(* (text s) or "ratio" (the float n / d).  A column is named by its        *)
(* position in the header (1-based); 0 stands for None.                    *)
(***************************************************************************)
EXTENDS Integers, Sequences, FiniteSets, TLC

VARIABLES uploaded_file, pc, df, clean_df, unique_towns, i, zip_file,
          st_messages, t_df, col, town_clean_df, strat_i, scorecard_rows,
          final_int_df, data, fn_args, fn_ret

vars == <<uploaded_file, pc, df, clean_df, unique_towns, i, zip_file,
          st_messages, t_df, col, town_clean_df, strat_i, scorecard_rows,
          final_int_df, data, fn_args, fn_ret>>

pipeline_vars_but_pc == <<uploaded_file, df, clean_df, unique_towns, i, zip_file,
          st_messages, t_df, col, town_clean_df, strat_i, scorecard_rows,
          final_int_df, data>>

\* ------------------------------------------------------------------ bounds
MaxTextLen == 3
MaxCols == 3
MaxRows == 2

\* the one element of a singleton set; Only({F(x) : x \in {e}}) is F(e) with
\* e evaluated once
Only(S) == CHOOSE x \in S : TRUE

\* ------------------------------------------------------------------- cells
NaN == [k |-> "nan", n |-> 0, d |-> 1, s |-> <<>>]
Num(x) == [k |-> "num", n |-> x, d |-> 1, s |-> <<>>]
Str(t) == [k |-> "str", n |-> 0, d |-> 1, s |-> t]
Ratio(a, b) == [k |-> "ratio", n |-> a, d |-> b, s |-> <<>>]
Blank == Str(<<>>)
None == 0

\* ------------------------------------------------------------------- texts
ToUpper == [a |-> "A", b |-> "B", c |-> "C", d |-> "D", e |-> "E", f |-> "F",
            g |-> "G", h |-> "H", i |-> "I", j |-> "J", k |-> "K", l |-> "L",
            m |-> "M", n |-> "N", o |-> "O", p |-> "P", q |-> "Q", r |-> "R",
            s |-> "S", t |-> "T", u |-> "U", v |-> "V", w |-> "W", x |-> "X",
            y |-> "Y", z |-> "Z"]

ToLower == [A |-> "a", B |-> "b", C |-> "c", D |-> "d", E |-> "e", F |-> "f",
            G |-> "g", H |-> "h", I |-> "i", J |-> "j", K |-> "k", L |-> "l",
            M |-> "m", N |-> "n", O |-> "o", P |-> "p", Q |-> "q", R |-> "r",
            S |-> "s", T |-> "t", U |-> "u", V |-> "v", W |-> "w", X |-> "x",
            Y |-> "y", Z |-> "z"]

DigitChars == <<"0","1","2","3","4","5","6","7","8","9">>

IndexIn(c, cs) == IF \E j \in 1..Len(cs) : cs[j] = c
                  THEN CHOOSE j \in 1..Len(cs) : cs[j] = c
                  ELSE 0

\* str.upper() and str.lower(), on the ASCII letters
upper(t) == [j \in 1..Len(t) |->
               IF t[j] \in DOMAIN ToUpper THEN ToUpper[t[j]] ELSE t[j]] \o <<>>

lower(t) == [j \in 1..Len(t) |->
               IF t[j] \in DOMAIN ToLower THEN ToLower[t[j]] ELSE t[j]] \o <<>>

\* kw in t  (Python substring test; the empty text is in every text)
contains(t, kw) ==
    \E tv \in {t}, kv \in {kw} :
        \E j \in 1..(Len(tv) - Len(kv) + 1) : SubSeq(tv, j, j + Len(kv) - 1) = kv

IsSpace(c) == c \in {" ", "\n", "\t"}

RECURSIVE lstrip(_)
lstrip(t) == IF t # <<>> /\ IsSpace(Head(t)) THEN lstrip(Tail(t)) ELSE t

RECURSIVE rstrip(_)
rstrip(t) == IF t # <<>> /\ IsSpace(t[Len(t)])
             THEN rstrip(SubSeq(t, 1, Len(t) - 1)) ELSE t

strip(t) == rstrip(lstrip(t))

RECURSIVE replace_newline(_)
replace_newline(t) ==
    IF t = <<>> THEN <<>>
    ELSE <<IF Head(t) = "\n" THEN " " ELSE Head(t)>> \o replace_newline(Tail(t))

RECURSIVE Digits(_)
Digits(x) == IF x < 10 THEN <<DigitChars[x + 1]>>
             ELSE Append(Digits(x \div 10), DigitChars[(x % 10) + 1])

\* str(value) / Series.astype(str)
astype_str(c) == CASE c.k = "nan" -> <<"n","a","n">>
                   [] c.k = "num" -> IF c.n < 0 THEN <<"-">> \o Digits(0 - c.n)
                                     ELSE Digits(c.n)
                   [] OTHER -> c.s

notna(c) == c.k # "nan"

RECURSIVE ParseDigits(_, _)
ParseDigits(t, acc) ==
    IF t = <<>> THEN acc
    ELSE ParseDigits(Tail(t), 10 * acc + (IndexIn(Head(t), DigitChars) - 1))

\* pd.to_numeric(errors='coerce') of one cell: a number, or NaN
to_numeric(c) ==
    CASE c.k = "num" -> c
      [] c.k = "str" /\ strip(c.s) # <<>>
                     /\ \A j \in 1..Len(strip(c.s)) :
                            IndexIn(strip(c.s)[j], DigitChars) # 0
           -> Num(ParseDigits(strip(c.s), 0))
      [] OTHER -> NaN

\* ------------------------------------------------------------- the resolver
\* get_col_by_keyword: position of the first column, in header order, whose
\* lower-cased name contains some lower-cased keyword; None when there is none
lower_all(texts) == [j \in 1..Len(texts) |-> lower(texts[j])] \o <<>>

get_col_by_keyword_kwfirst(columns, keywords) ==
    Only({ LET hit(x) == {c \in 1..Len(cols) : contains(cols[c], kws[x])}
               ks == {x \in 1..Len(kws) : hit(x) # {}}
           IN  IF ks = {} THEN None
               ELSE Only({ CHOOSE c \in hit(k0) : \A e \in hit(k0) : c <= e :
                             k0 \in {x \in ks : \A y \in ks : x <= y} }) :
             cols \in {lower_all(columns)}, kws \in {lower_all(keywords)} })

get_col_by_keyword(columns, keywords) ==
    Only({ Only({ IF hits = {} THEN None
                  ELSE CHOOSE c \in hits : \A e \in hits : c <= e :
                    hits \in {{c \in 1..Len(cols) :
                                 \E x \in 1..Len(kws) : contains(cols[c], kws[x])}} }) :
             cols \in {lower_all(columns)}, kws \in {lower_all(keywords)} })

KwStrat == << <<"U","p","d","a","t","e","d"," ","S","t","r","a","t","i","f","i","c","a","t","i","o","n">>, <<"S","t","r","a","t","i","f","i","c","a","t","i","o","n">> >>
KwBalType == << <<"B","A","L"," ","S","t","o","r","e"," ","T","y","p","e">> >>
KwTvsType == << <<"T","V","S"," ","S","t","o","r","e"," ","T","y","p","e">> >>
KwIndS1 == << <<"S","1"," ","I","n","d"," ","-"," ","F">>, <<"S","1"," ","I","n","d"," ","V","i","s","t","a","a","r">>, <<"S","1"," ","I","n","d">> >>
KwBalS1 == << <<"B","A","L"," ","S","1"," ","V","o","l">>, <<"B","A","L"," ","S","1">> >>
KwTvsS1 == << <<"T","V","S"," ","S","1"," ","V","o","l">>, <<"T","V","S"," ","S","1">> >>
KwCr == << <<"C","R">> >>
KwNature == << <<"N","a","t","u","r","e"," ","o","f"," ","I","n","t","e","r","v","e","n","t","i","o","n">> >>
KwNetwork == << <<"N","e","t","w","o","r","k"," ","I","n","t","e","r","v","e","n","t","i","o","n">> >>
KwLocation == << <<"L","o","c","a","t","i","o","n"," ","/"," ","T","2","T">>, <<"L","o","c","a","t","i","o","n">> >>
KwRemarks == << <<"R","e","m","a","r","k","s">> >>
KwClosed == << <<"S","u","b","-","L","o","c","a","t","i","o","n">>, <<"H","i","g","h","l","i","g","h","t">> >>

\* ----------------------------------------------------------- the classifier
PrimaryKeywords == << <<"M","D">>, <<"D","E","A","L","E","R">>, <<"B","R","A","N","C","H">>, <<"B","R">> >>
SecondaryKeywords == << <<"A","S","D">>, <<"A","D">>, <<"S","U","B">>, <<"R","E","P">> >>

\* any(x in val for x in kws)
any_in(val, kws) == \E x \in 1..Len(kws) : contains(val, kws[x])

classify_row_bucket_secfirst(row, col_bal_type) ==
    LET val == IF col_bal_type # None /\ notna(row[col_bal_type])
               THEN upper(astype_str(row[col_bal_type])) ELSE <<>>
    IN  IF any_in(val, SecondaryKeywords) THEN "Secondary"
        ELSE IF any_in(val, PrimaryKeywords) THEN "Primary"
        ELSE "Vacant"

classify_row_bucket(row, col_bal_type) ==
    LET val == IF col_bal_type # None /\ notna(row[col_bal_type])
               THEN upper(astype_str(row[col_bal_type])) ELSE <<>>
    IN  IF any_in(val, PrimaryKeywords) THEN "Primary"
        ELSE IF any_in(val, SecondaryKeywords) THEN "Secondary"
        ELSE "Vacant"

\* ------------------------------------------------------------- dataframes
\* A dataframe is [columns, rows]; a row is [idx, cells], idx being the index
\* label pandas keeps through every filter.
clean_column_names(columns) ==
    [j \in 1..Len(columns) |-> strip(replace_newline(columns[j]))]

\* position of the column named exactly `name`, None when absent
column_named(columns, name) ==
    IF \E c \in 1..Len(columns) : columns[c] = name
    THEN CHOOSE c \in 1..Len(columns) :
             columns[c] = name /\ \A e \in 1..(c - 1) : columns[e] # name
    ELSE None

\* Series.astype(str).str.contains(pat, case=False, na=False) of one cell
str_contains_nocase(c, pat) == contains(lower(astype_str(c)), lower(pat))

\* Series.astype(str).str.upper().str.contains('A|B|C') of one cell
upper_contains_any(c, alternatives) == any_in(upper(astype_str(c)), alternatives)

RECURSIVE unique(_)
unique(cells) ==
    IF cells = <<>> THEN <<>>
    ELSE LET init == unique(SubSeq(cells, 1, Len(cells) - 1))
             last == cells[Len(cells)]
         IN  IF \E j \in 1..Len(init) : init[j] = last THEN init
             ELSE Append(init, last)

RECURSIVE SumSeq(_)
SumSeq(xs) == IF xs = <<>> THEN 0 ELSE Head(xs) + SumSeq(Tail(xs))

\* pd.to_numeric(column, errors='coerce') with the NaN entries dropped
numeric_values(rows, c) ==
    LET vals == [j \in 1..Len(rows) |-> to_numeric(rows[j].cells[c])]
        IsNumCell(v) == v.k = "num"
        kept == SelectSeq(vals, IsNumCell)
    IN  [j \in 1..Len(kept) |-> kept[j].n]

\* pd.to_numeric(bucket_df[c], errors='coerce').sum() if c else 0
column_sum(rows, c) == IF c # None THEN SumSeq(numeric_values(rows, c)) ELSE 0

\* pd.to_numeric(bucket_df[c], errors='coerce').mean() if c else 0
column_mean(rows, c) ==
    IF c = None THEN Num(0)
    ELSE IF numeric_values(rows, c) = <<>> THEN NaN
    ELSE Ratio(SumSeq(numeric_values(rows, c)), Len(numeric_values(rows, c)))

\* ------------------------------------------------- generate_town_excel
target_strats == << <<"L","a","r","g","e"," ","T","o","w","n">>, <<"S","m","a","l","l"," ","T","o","w","n">>, <<"R","u","r","a","l">>, <<"D","e","e","p"," ","R","u","r","a","l">> >>

TvsPriPattern == << <<"M","D">>, <<"D","E","A","L","E","R">>, <<"B","R","A","N","C","H">> >>
TvsSecPattern == << <<"A","S","D">>, <<"A","D">>, <<"S","U","B">> >>
AddPriPattern == << <<"B","R","A","N","C","H">>, <<"M","D">> >>
AddSecPattern == << <<"A","S","D">> >>

\* section 1: the column mapping
map_columns(columns) ==
    [strat    |-> get_col_by_keyword(columns, KwStrat),
     bal_type |-> get_col_by_keyword(columns, KwBalType),
     tvs_type |-> get_col_by_keyword(columns, KwTvsType),
     ind_s1   |-> get_col_by_keyword(columns, KwIndS1),
     bal_s1   |-> get_col_by_keyword(columns, KwBalS1),
     tvs_s1   |-> get_col_by_keyword(columns, KwTvsS1),
     cr       |-> get_col_by_keyword(columns, KwCr),
     nature   |-> get_col_by_keyword(columns, KwNature),
     network  |-> get_col_by_keyword(columns, KwNetwork),
     location |-> get_col_by_keyword(columns, KwLocation),
     remarks  |-> get_col_by_keyword(columns, KwRemarks),
     closed   |-> get_col_by_keyword(columns, KwClosed)]

NoCols == [strat |-> None, bal_type |-> None, tvs_type |-> None, ind_s1 |-> None,
           bal_s1 |-> None, tvs_s1 |-> None, cr |-> None, nature |-> None,
           network |-> None, location |-> None, remarks |-> None, closed |-> None]

filter_closed_nofilter(rows, col_closed) == rows

\* the closed-store filter
filter_closed(rows, col_closed) ==
    LET Open(r) == ~ str_contains_nocase(r.cells[col_closed], <<"c","l","o","s","e","d">>)
    IN  IF col_closed # None THEN SelectSeq(rows, Open) ELSE rows

\* the rows of one stratification, with their Bucket column
strat_rows(rows, c, strat) ==
    LET InStrat(r) == lower(strip(astype_str(r.cells[c.strat]))) = lower(strat)
        sel == SelectSeq(rows, InStrat)
    IN  [j \in 1..Len(sel) |->
            [idx |-> sel[j].idx, cells |-> sel[j].cells,
             Bucket |-> classify_row_bucket(sel[j].cells, c.bal_type)]]

ZeroMetrics ==
    [count_bal |-> 0, count_tvs_pri |-> 0, count_tvs_sec |-> 0, vol_ind_s1 |-> 0,
     vol_bal_s1 |-> 0, vol_tvs_s1 |-> 0, ms |-> Num(0), vol_gap |-> 0,
     cr |-> Num(0), add_pri |-> 0, add_sec |-> 0]

count_matching(rows, cc, alternatives) ==
    LET Hit(r) == upper_contains_any(r.cells[cc], alternatives)
    IN  IF cc # None THEN Len(SelectSeq(rows, Hit)) ELSE 0

bucket_metrics(bucket_df, c) ==
    LET vol_ind_s1 == column_sum(bucket_df, c.ind_s1)
        vol_bal_s1 == column_sum(bucket_df, c.bal_s1)
        vol_tvs_s1 == column_sum(bucket_df, c.tvs_s1)
    IN  IF bucket_df = <<>> THEN ZeroMetrics
        ELSE [count_bal     |-> Len(bucket_df),
              count_tvs_pri |-> count_matching(bucket_df, c.tvs_type, TvsPriPattern),
              count_tvs_sec |-> count_matching(bucket_df, c.tvs_type, TvsSecPattern),
              vol_ind_s1    |-> vol_ind_s1,
              vol_bal_s1    |-> vol_bal_s1,
              vol_tvs_s1    |-> vol_tvs_s1,
              ms            |-> IF vol_ind_s1 > 0 THEN Ratio(vol_bal_s1, vol_ind_s1)
                                ELSE Num(0),
              vol_gap       |-> vol_tvs_s1 - vol_bal_s1,
              cr            |-> column_mean(bucket_df, c.cr),
              add_pri       |-> count_matching(bucket_df, c.nature, AddPriPattern),
              add_sec       |-> count_matching(bucket_df, c.nature, AddSecPattern)]

get_bucket_metrics(strat_df, c, bucket_name) ==
    LET InBucket(r) == r.Bucket = bucket_name
    IN  IF strat_df = <<>> THEN ZeroMetrics
        ELSE Only({bucket_metrics(bucket_df, c) :
                      bucket_df \in {SelectSeq(strat_df, InBucket)}})

max_noclamp(a, b) == b

max(a, b) == IF a >= b THEN a ELSE b

\* x if x > 0 else ""
positive_or_blank(x) == IF x > 0 THEN Num(x) ELSE Blank

\* the five rows one stratification appends to scorecard_rows, from the
\* metrics p, s, v of its three buckets
block_rows(strat, p, s, v) ==
    LET gap_p == p.count_bal - (p.count_tvs_pri + p.count_tvs_sec)
        gap_s == s.count_bal - (s.count_tvs_pri + s.count_tvs_sec)
        gap_v == v.count_bal - (v.count_tvs_pri + v.count_tvs_sec)
        ulg_p == 0
        ulg_s == 0
        ulg_v == v.count_bal
        tot_bal == p.count_bal + s.count_bal + v.count_bal
        tot_tvs_p == p.count_tvs_pri + s.count_tvs_pri + v.count_tvs_pri
        tot_tvs_s == p.count_tvs_sec + s.count_tvs_sec + v.count_tvs_sec
        tot_gap == gap_p + gap_s + gap_v
        tot_ulg == ulg_p + ulg_s + ulg_v
        net_post_p == p.count_bal + p.add_pri
        net_post_s == s.count_bal + s.add_sec
        net_post_tot == tot_bal + (p.add_pri + p.add_sec) + (s.add_pri + s.add_sec)
                                + (v.add_pri + v.add_sec)
        ulg_post == max(0, tot_ulg - ((p.add_pri + p.add_sec) + (s.add_pri + s.add_sec)
                                      + (v.add_pri + v.add_sec)))
    IN  << << Str(strat), Str(<<"P","r","i"," ","S","t","o","r","e">>), Num(p.count_bal), Num(p.count_tvs_pri),
              Num(p.count_tvs_sec), Num(gap_p), Num(ulg_p), Num(p.vol_ind_s1),
              Num(p.vol_bal_s1), p.ms, Num(p.vol_tvs_s1), Num(p.vol_gap), p.cr,
              positive_or_blank(p.add_pri), positive_or_blank(p.add_sec),
              Blank, Blank, Num(net_post_p), Blank >>,
           << Blank, Str(<<"A","S","D">>), Num(s.count_bal), Num(s.count_tvs_pri),
              Num(s.count_tvs_sec), Num(gap_s), Num(ulg_s), Num(s.vol_ind_s1),
              Num(s.vol_bal_s1), s.ms, Num(s.vol_tvs_s1), Num(s.vol_gap), s.cr,
              positive_or_blank(s.add_pri), positive_or_blank(s.add_sec),
              Blank, Blank, Num(net_post_s), Blank >>,
           << Blank, Str(<<"V","a","c","a","n","t">>), Num(v.count_bal), Num(v.count_tvs_pri),
              Num(v.count_tvs_sec), Num(gap_v), Num(ulg_v), Num(v.vol_ind_s1),
              Num(v.vol_bal_s1), v.ms, Num(v.vol_tvs_s1), Num(v.vol_gap), Blank,
              positive_or_blank(v.add_pri), positive_or_blank(v.add_sec),
              Blank, Blank, Blank, IF ulg_v > 0 THEN Num(ulg_post) ELSE Blank >>,
           << Blank, Str(<<"T","o","t","a","l">>), Num(tot_bal), Num(tot_tvs_p), Num(tot_tvs_s),
              Num(tot_gap), Num(tot_ulg),
              Num(p.vol_ind_s1 + s.vol_ind_s1 + v.vol_ind_s1),
              Num(p.vol_bal_s1 + s.vol_bal_s1 + v.vol_bal_s1), Blank,
              Num(p.vol_tvs_s1 + s.vol_tvs_s1 + v.vol_tvs_s1),
              Num(p.vol_gap + s.vol_gap + v.vol_gap), Blank,
              Num(p.add_pri + s.add_pri + v.add_pri),
              Num(p.add_sec + s.add_sec + v.add_sec), Blank, Blank,
              Num(net_post_tot), Num(ulg_post) >>,
           [j \in 1..19 |-> Blank] >>

strat_block_skip_empty(rows, c, strat) ==
    IF strat_rows(rows, c, strat) = <<>> THEN <<>>
    ELSE Only({ Only({block_rows(strat, p, s, v) :
                         p \in {get_bucket_metrics(strat_df, c, "Primary")},
                         s \in {get_bucket_metrics(strat_df, c, "Secondary")},
                         v \in {get_bucket_metrics(strat_df, c, "Vacant")}}) :
                  strat_df \in {strat_rows(rows, c, strat)} })

\* one pass of the stratification loop
strat_block(rows, c, strat) ==
    Only({ Only({block_rows(strat, p, s, v) :
                    p \in {get_bucket_metrics(strat_df, c, "Primary")},
                    s \in {get_bucket_metrics(strat_df, c, "Secondary")},
                    v \in {get_bucket_metrics(strat_df, c, "Vacant")}}) :
             strat_df \in {strat_rows(rows, c, strat)} })

\* section 3: the network plan
desired_cols(c) ==
    << [src |-> c.location, dest |-> "Location / T2T"],
       [src |-> c.strat,    dest |-> "Updated Stratification"],
       [src |-> c.tvs_type, dest |-> "TVS Store Type"],
       [src |-> c.bal_type, dest |-> "BAL Store Type"],
       [src |-> c.ind_s1,   dest |-> "S1 Ind Vistaar"],
       [src |-> c.nature,   dest |-> "Nature of Intervention"],
       [src |-> c.network,  dest |-> "Network Intervention"],
       [src |-> c.remarks,  dest |-> "Remarks"] >>

\* a dict literal: a repeated key keeps its first position and its last value
dict_items(pairs) ==
    LET First(j) == \A e \in 1..(j - 1) : pairs[e].src # pairs[j].src
        LastOf(j) == CHOOSE e \in j..Len(pairs) :
                        /\ pairs[e].src = pairs[j].src
                        /\ \A f \in (e + 1)..Len(pairs) : pairs[f].src # pairs[j].src
        firsts == SelectSeq([j \in 1..Len(pairs) |-> j], First)
    IN  [x \in 1..Len(firsts) |->
            [src |-> pairs[firsts[x]].src, dest |-> pairs[LastOf(firsts[x])].dest]]

EmptyFrame == [columns |-> <<>>, rows |-> <<>>]

intervention_rows_unfiltered(rows, col_network) ==
    LET Marked(r) == notna(r.cells[col_network])
    IN  SelectSeq(t_df.rows, Marked)

\* clean_df[clean_df[col_network].notna()]
intervention_rows(rows, col_network) ==
    LET Marked(r) == notna(r.cells[col_network])
    IN  SelectSeq(rows, Marked)

\* A column assigned "" while the frame still has no index is empty, and is
\* filled with NaN when the first Series gives the frame its index; assigned
\* later, it holds "" in every row.
network_plan(rows, c) ==
    IF c.network = None THEN EmptyFrame
    ELSE LET intervention_df == intervention_rows(rows, c.network)
             items == dict_items(desired_cols(c))
         IN  [columns |-> [x \in 1..Len(items) |-> items[x].dest],
              rows |-> [j \in 1..Len(intervention_df) |->
                          [idx |-> intervention_df[j].idx,
                           cells |-> [x \in 1..Len(items) |->
                                IF items[x].src # None
                                THEN intervention_df[j].cells[items[x].src]
                                ELSE IF x = 1 THEN NaN ELSE Blank]]]]

NoData == [kind |-> "None", title |-> NaN, Scorecard |-> <<>>,
           has_network_plan |-> FALSE, Network_Plan |-> EmptyFrame]

\* section 4: the workbook (cell values only; styles are not modelled)
workbook(town_name, rows, plan) ==
    [kind |-> "xlsx", title |-> town_name, Scorecard |-> rows,
     has_network_plan |-> (plan.rows # <<>> /\ plan.columns # <<>>),
     Network_Plan |-> IF plan.rows # <<>> /\ plan.columns # <<>> THEN plan
                      ELSE EmptyFrame]

\* ------------------------------------------------------------ the inputs
\* An uploaded file is a header layout over rows built from a pool of store
\* records.  Its header row is the one read with header=2; a file whose
\* header has no Town column has none when re-read with header=1 either.
Rec(town, strat, bal, tvs, ind, balv, nature, network, sub) ==
    [town |-> town, strat |-> strat, strat_old |-> Str(<<"R","u","r","a","l">>), bal |-> bal,
     tvs |-> tvs, ind |-> ind, balv |-> balv, tvsv |-> Num(10), cr |-> Num(2),
     nature |-> nature, network |-> network, location |-> Str(<<"M","a","i","n"," ","R","d">>),
     remarks |-> NaN, sub |-> sub]

RecordPool ==
    << Rec(Str(<<"A">>), Str(<<"L","a","r","g","e"," ","T","o","w","n">>), Str(<<"M","D">>), Str(<<"S","U","B"," ","D","E","A","L","E","R">>),
           Num(100), Num(40), Str(<<"A","S","D">>), Str(<<"A","d","d"," ","A","S","D">>), NaN),
       Rec(Str(<<"A">>), Str(<<"L","a","r","g","e"," ","T","o","w","n">>), Str(<<"A","S","D">>), Str(<<"M","D">>),
           Num(0), Num(10), Str(<<"N","e","w"," ","M","D">>), NaN, NaN),
       Rec(Str(<<"A">>), Str(<<" ","l","a","r","g","e"," ","t","o","w","n"," ">>), NaN, NaN,
           NaN, Str(<<"N","/","A">>), Str(<<"B","r","a","n","c","h"," ","/"," ","A","S","D">>), Str(<<"A","p","p","o","i","n","t">>), NaN),
       Rec(Str(<<"A">>), Str(<<"L","a","r","g","e"," ","T","o","w","n">>), Str(<<"V","a","c","a","n","t">>), NaN,
           Num(5), Num(0), NaN, NaN, NaN),
       Rec(Str(<<"A">>), Str(<<"L","a","r","g","e"," ","T","o","w","n">>), Str(<<"M","D">>), Str(<<"D","e","a","l","e","r">>),
           Num(50), Num(5), Str(<<"M","D">>), Str(<<"R","e","l","o","c","a","t","e">>), Str(<<"C","l","o","s","e","d">>)),
       Rec(Str(<<"B">>), Str(<<"S","m","a","l","l"," ","T","o","w","n">>), Str(<<"S","u","b"," ","D","e","a","l","e","r">>), Str(<<"R","E","P">>),
           Num(20), Str(<<"7">>), Str(<<"m","d">>), NaN, NaN),
       Rec(Str(<<"A">>), Str(<<"D","e","e","p"," ","R","u","r","a","l">>), Str(<<"R","e","p">>), Str(<<"B","R">>),
           Num(30), Num(3), NaN, NaN, Str(<<"o","p","e","n">>)),
       Rec(Str(<<"A">>), NaN, Str(<<"M","D">>), Str(<<"M","D">>),
           Num(1), Num(1), NaN, NaN, NaN),
       Rec(Str(<<"G","r","a","n","d"," ","T","o","t","a","l">>), Str(<<"L","a","r","g","e"," ","T","o","w","n">>), Str(<<"M","D">>), NaN,
           Num(200), Num(60), NaN, NaN, NaN),
       Rec(Str(<<"B">>), Str(<<"R","u","r","a","l">>), Str(<<"B","r","a","n","c","h">>), NaN,
           Num(10), Num(1), Str(<<"A","S","D">>), Str(<<"A","d","d">>), Str(<<"t","e","m","p","o","r","a","r","i","l","y"," ","C","L","O","S","E","D">>)),
       Rec(NaN, Str(<<"R","u","r","a","l">>), Str(<<"A","S","D">>), NaN,
           Num(1), Num(1), NaN, NaN, NaN),
       Rec(Str(<<"A">>), Str(<<"R","u","r","a","l">>), NaN, Str(<<"A","S","D">>),
           Num(8), NaN, Str(<<"M","D">>), Str(<<"x">>), NaN) >>

Layouts ==
    { << [header |-> <<"T","o","w","n">>, field |-> "town"],
         [header |-> <<"U","p","d","a","t","e","d","\n","S","t","r","a","t","i","f","i","c","a","t","i","o","n">>, field |-> "strat"],
         [header |-> <<"B","A","L"," ","S","t","o","r","e"," ","T","y","p","e">>, field |-> "bal"],
         [header |-> <<"T","V","S"," ","S","t","o","r","e"," ","T","y","p","e">>, field |-> "tvs"],
         [header |-> <<"S","1"," ","I","n","d"," ","V","i","s","t","a","a","r">>, field |-> "ind"],
         [header |-> <<"B","A","L"," ","S","1"," ","V","o","l">>, field |-> "balv"],
         [header |-> <<"T","V","S"," ","S","1"," ","V","o","l">>, field |-> "tvsv"],
         [header |-> <<"C","R">>, field |-> "cr"],
         [header |-> <<"N","a","t","u","r","e"," ","o","f"," ","I","n","t","e","r","v","e","n","t","i","o","n">>, field |-> "nature"],
         [header |-> <<"N","e","t","w","o","r","k"," ","I","n","t","e","r","v","e","n","t","i","o","n">>, field |-> "network"],
         [header |-> <<"S","u","b","-","L","o","c","a","t","i","o","n">>, field |-> "sub"],
         [header |-> <<"R","e","m","a","r","k","s">>, field |-> "remarks"] >>,
      << [header |-> <<"T","o","w","n">>, field |-> "town"],
         [header |-> <<"B","A","L"," ","S","t","o","r","e"," ","T","y","p","e">>, field |-> "bal"],
         [header |-> <<"T","V","S"," ","S","t","o","r","e"," ","T","y","p","e">>, field |-> "tvs"],
         [header |-> <<"N","e","t","w","o","r","k"," ","I","n","t","e","r","v","e","n","t","i","o","n">>, field |-> "network"],
         [header |-> <<"H","i","g","h","l","i","g","h","t">>, field |-> "sub"] >>,
      << [header |-> <<"T","o","w","n">>, field |-> "town"],
         [header |-> <<" ","S","t","r","a","t","i","f","i","c","a","t","i","o","n"," ">>, field |-> "strat"],
         [header |-> <<"B","A","L"," ","S","t","o","r","e"," ","T","y","p","e">>, field |-> "bal"],
         [header |-> <<"S","1"," ","I","n","d">>, field |-> "ind"] >>,
      << [header |-> <<"S","t","r","a","t","i","f","i","c","a","t","i","o","n">>, field |-> "strat"],
         [header |-> <<"B","A","L"," ","S","t","o","r","e"," ","T","y","p","e">>, field |-> "bal"] >>,
      << [header |-> <<"T","o","w","n">>, field |-> "town"],
         [header |-> <<"L","o","c","a","t","i","o","n"," ","/"," ","T","2","T">>, field |-> "location"],
         [header |-> <<"S","t","r","a","t","i","f","i","c","a","t","i","o","n">>, field |-> "strat_old"],
         [header |-> <<"U","p","d","a","t","e","d"," ","S","t","r","a","t","i","f","i","c","a","t","i","o","n">>, field |-> "strat"],
         [header |-> <<"b","a","l"," ","s","t","o","r","e"," ","t","y","p","e">>, field |-> "bal"],
         [header |-> <<"H","i","g","h","l","i","g","h","t">>, field |-> "sub"],
         [header |-> <<"N","a","t","u","r","e"," ","o","f"," ","I","n","t","e","r","v","e","n","t","i","o","n">>, field |-> "nature"],
         [header |-> <<"N","e","t","w","o","r","k"," ","I","n","t","e","r","v","e","n","t","i","o","n">>, field |-> "network"] >> }

RECURSIVE SeqsUpTo(_, _)
SeqsUpTo(S, n) ==
    IF n = 0 THEN {<<>>}
    ELSE LET shorter == SeqsUpTo(S, n - 1)
         IN  shorter \cup {Append(q, x) : q \in shorter, x \in S}

Files ==
    { [columns |-> [j \in 1..Len(layout) |-> layout[j].header],
       rows |-> [r \in 1..Len(picks) |->
                   [idx |-> r,
                    cells |-> [j \in 1..Len(layout) |->
                                 RecordPool[picks[r]][layout[j].field]]]]] :
        layout \in Layouts, picks \in SeqsUpTo(1..Len(RecordPool), MaxRows) }

\* ------------------------------------------------------------- the app
Idle == /\ df = EmptyFrame
        /\ clean_df = <<>>
        /\ unique_towns = <<>>
        /\ i = 0
        /\ zip_file = <<>>
        /\ st_messages = <<>>
        /\ t_df = EmptyFrame
        /\ col = NoCols
        /\ town_clean_df = <<>>
        /\ strat_i = 0
        /\ scorecard_rows = <<>>
        /\ final_int_df = EmptyFrame
        /\ data = NoData

Init == /\ uploaded_file \in Files
        /\ pc = "uploaded"
        /\ Idle
        /\ fn_args = <<>>
        /\ fn_ret = <<>>

\* the file is read, its column names cleaned, the Total rows dropped
LoadFile ==
    /\ pc = "uploaded"
    /\ \E columns \in {clean_column_names(uploaded_file.columns)} :
       LET town == column_named(columns, <<"T","o","w","n">>)
           NotTotal(r) == ~ str_contains_nocase(r.cells[town], <<"T","o","t","a","l">>)
           kept == SelectSeq(uploaded_file.rows, NotTotal)
           towns == [j \in 1..Len(kept) |-> kept[j].cells[town]]
       IN  /\ df' = [columns |-> columns, rows |-> uploaded_file.rows]
           /\ IF town = None
              THEN /\ pc' = "error"
                   /\ st_messages' = Append(st_messages,
                                        [kind |-> "error", what |-> Str(<<"T","o","w","n">>)])
                   /\ UNCHANGED <<clean_df, unique_towns>>
              ELSE /\ pc' = "loaded"
                   /\ clean_df' = kept
                   /\ unique_towns' = unique(SelectSeq(towns, notna))
                   /\ st_messages' = Append(st_messages,
                                        [kind |-> "success",
                                         what |-> Num(Len(unique(SelectSeq(towns, notna))))])
    /\ UNCHANGED <<uploaded_file, i, zip_file, t_df, col, town_clean_df, strat_i,
                   scorecard_rows, final_int_df, data, fn_args, fn_ret>>

\* st.button("Generate Scorecards") is pressed
ClickGenerate ==
    /\ pc = "loaded"
    /\ pc' = "loop"
    /\ i' = 1
    /\ zip_file' = <<>>
    /\ UNCHANGED <<uploaded_file, df, clean_df, unique_towns, st_messages, t_df, col,
                   town_clean_df, strat_i, scorecard_rows, final_int_df, data,
                   fn_args, fn_ret>>

\* generate_town_excel, section 1: columns mapped, closed stores filtered,
\* None returned when the stratification column is missing
StartTown ==
    /\ pc = "loop"
    /\ i <= Len(unique_towns)
    /\ \E c \in {map_columns(df.columns)} :
       LET town == column_named(df.columns, <<"T","o","w","n">>)
           OfTown(r) == r.cells[town] = unique_towns[i]
           rows == SelectSeq(clean_df, OfTown)
       IN  /\ t_df' = [columns |-> df.columns, rows |-> rows]
           /\ col' = c
           /\ town_clean_df' = filter_closed(rows, c.closed)
           /\ scorecard_rows' = <<>>
           /\ final_int_df' = EmptyFrame
           /\ IF c.strat = None
              THEN /\ data' = NoData
                   /\ pc' = "returned"
                   /\ strat_i' = 0
              ELSE /\ data' = NoData
                   /\ pc' = "strat"
                   /\ strat_i' = 1
    /\ UNCHANGED <<uploaded_file, df, clean_df, unique_towns, i, zip_file,
                   st_messages, fn_args, fn_ret>>

\* section 2: one pass of the stratification loop
StratBlock ==
    /\ pc = "strat"
    /\ scorecard_rows' = scorecard_rows \o
                           strat_block(town_clean_df, col, target_strats[strat_i])
    /\ IF strat_i < Len(target_strats)
       THEN /\ strat_i' = strat_i + 1
            /\ pc' = "strat"
       ELSE /\ strat_i' = strat_i
            /\ pc' = "network"
    /\ UNCHANGED <<uploaded_file, df, clean_df, unique_towns, i, zip_file,
                   st_messages, t_df, col, town_clean_df, final_int_df, data,
                   fn_args, fn_ret>>

\* section 3
NetworkPlan ==
    /\ pc = "network"
    /\ final_int_df' = network_plan(town_clean_df, col)
    /\ pc' = "excel"
    /\ UNCHANGED <<uploaded_file, df, clean_df, unique_towns, i, zip_file,
                   st_messages, t_df, col, town_clean_df, strat_i, scorecard_rows,
                   data, fn_args, fn_ret>>

\* section 4
ExcelGeneration ==
    /\ pc = "excel"
    /\ data' = workbook(unique_towns[i], scorecard_rows, final_int_df)
    /\ pc' = "returned"
    /\ UNCHANGED <<uploaded_file, df, clean_df, unique_towns, i, zip_file,
                   st_messages, t_df, col, town_clean_df, strat_i, scorecard_rows,
                   final_int_df, fn_args, fn_ret>>

\* if data: zip_file.writestr(...); the loop goes on to the next town
ZipWrite ==
    /\ pc = "returned"
    /\ zip_file' = IF data.kind # "None"
                   THEN Append(zip_file, [name |-> unique_towns[i], data |-> data])
                   ELSE zip_file
    /\ i' = i + 1
    /\ pc' = "loop"
    /\ UNCHANGED <<uploaded_file, df, clean_df, unique_towns, st_messages, t_df, col,
                   town_clean_df, strat_i, scorecard_rows, final_int_df, data,
                   fn_args, fn_ret>>

\* the loop is over: the archive is offered for download
DownloadButton ==
    /\ pc = "loop"
    /\ i > Len(unique_towns)
    /\ st_messages' = Append(st_messages,
                             [kind |-> "download", what |-> Num(Len(zip_file))])
    /\ pc' = "done"
    /\ UNCHANGED <<uploaded_file, df, clean_df, unique_towns, i, zip_file, t_df, col,
                   town_clean_df, strat_i, scorecard_rows, final_int_df, data,
                   fn_args, fn_ret>>

Next == \/ LoadFile
        \/ ClickGenerate
        \/ StartTown
        \/ StratBlock
        \/ NetworkPlan
        \/ ExcelGeneration
        \/ ZipWrite
        \/ DownloadButton

Spec == Init /\ [][Next]_vars

\* ------------------------------------------- the classifier, on its own
Alphabet == {"M", "D", "B", "R", "A", "S", "d", " "}

SampleTypeTexts ==
    { <<"D","e","a","l","e","r">>, <<"S","u","b"," ","D","e","a","l","e","r">>, <<"B","r","a","n","c","h">>, <<"A","S","D"," ","/"," ","B","r","a","n","c","h">>, <<"R","e","p">>,
      <<"s","u","b">>, <<"H","e","a","d"," ","O","f","f","i","c","e">>, <<"V","a","c","a","n","t">>, <<"n","a","n">>, <<"R","E","P","-","B","R">> }

TypeCells == {NaN, Num(0), Num(7)}
             \cup {Str(t) : t \in SampleTypeTexts \cup SeqsUpTo(Alphabet, MaxTextLen)}

InitClassify ==
    /\ uploaded_file = EmptyFrame
    /\ pc = "call"
    /\ Idle
    /\ fn_args \in {[row |-> <<Str(<<"A">>), cell>>, col_bal_type |-> cc] :
                       cell \in TypeCells, cc \in {None, 2}}
    /\ fn_ret = <<>>

CallClassify ==
    /\ pc = "call"
    /\ fn_ret' = classify_row_bucket(fn_args.row, fn_args.col_bal_type)
    /\ pc' = "ret"
    /\ UNCHANGED <<pipeline_vars_but_pc, fn_args>>

NextClassify == CallClassify

SpecClassify == InitClassify /\ [][NextClassify]_vars

\* --------------------------------------------- the resolver, on its own
HeaderPool ==
    { <<"U","p","d","a","t","e","d"," ","S","t","r","a","t","i","f","i","c","a","t","i","o","n">>, <<"S","t","r","a","t","i","f","i","c","a","t","i","o","n">>, <<"S","T","R","A","T","I","F","I","C","A","T","I","O","N"," ","(","O","L","D",")">>,
      <<"T","o","w","n">>, <<"S","1"," ","I","n","d"," ","V","i","s","t","a","a","r">>, <<"S","1"," ","I","n","d"," ","-"," ","F">>, <<"s","1"," ","i","n","d","u","s","t","r","y">>,
      <<"S","u","b","-","L","o","c","a","t","i","o","n">>, <<"L","o","c","a","t","i","o","n"," ","/"," ","T","2","T">> }

KeywordLists == {KwStrat, KwBalType, KwTvsType, KwIndS1, KwBalS1, KwTvsS1, KwCr,
                 KwNature, KwNetwork, KwLocation, KwRemarks, KwClosed}

\* read_excel never yields two columns of one name
HeaderRows == {h \in SeqsUpTo(HeaderPool, MaxCols) :
                 \A a, b \in 1..Len(h) : a # b => h[a] # h[b]}

InitResolver ==
    /\ uploaded_file = EmptyFrame
    /\ pc = "call"
    /\ Idle
    /\ fn_args \in {[columns |-> h, keywords |-> kws] :
                       h \in HeaderRows, kws \in KeywordLists}
    /\ fn_ret = <<>>

CallResolver ==
    /\ pc = "call"
    /\ fn_ret' = get_col_by_keyword(fn_args.columns, fn_args.keywords)
    /\ pc' = "ret"
    /\ UNCHANGED <<pipeline_vars_but_pc, fn_args>>

NextResolver == CallResolver

SpecResolver == InitResolver /\ [][NextResolver]_vars

\* ================================================================ claims
\* what the claims speak of, read off the state

\* a blank cell counts as zero
CellNum(cell) == IF cell.k = "num" THEN cell.n ELSE 0

\* the r-th row (1 Primary, 2 Secondary, 3 Vacant, 4 Total, 5 spacer) of the
\* k-th stratification block of the scorecard
BlockRow(k, r) == scorecard_rows[5 * (k - 1) + r]

BlocksDone == 1..(Len(scorecard_rows) \div 5)

StratNames == << <<"L","a","r","g","e"," ","T","o","w","n">>, <<"S","m","a","l","l"," ","T","o","w","n">>, <<"R","u","r","a","l">>, <<"D","e","e","p"," ","R","u","r","a","l">> >>

IsClosedRecord(r) ==
    col.closed # None /\ contains(lower(astype_str(r.cells[col.closed])), <<"c","l","o","s","e","d">>)

InStratification(r, k) ==
    lower(strip(astype_str(r.cells[col.strat]))) = lower(StratNames[k])

\* the active records of the town in the k-th stratification
ActiveRecords(k) ==
    {j \in 1..Len(t_df.rows) :
        ~ IsClosedRecord(t_df.rows[j]) /\ InStratification(t_df.rows[j], k)}

BucketNames == <<"Primary", "Secondary", "Vacant">>

\* the active records of the k-th stratification in the bucket of row r
BucketRecords(k, r) ==
    {j \in ActiveRecords(k) :
        classify_row_bucket(t_df.rows[j].cells, col.bal_type) = BucketNames[r]}

\* ---------------------------------------------------------------------
\* C1: classify_row_bucket is total: whatever the store-type value (a text,
\* a number, NaN, or no BAL store-type column at all) it returns one of
\* Primary, Secondary, Vacant; Primary whenever the upper-cased text holds
\* MD, DEALER, BRANCH or BR, even beside a Secondary keyword; Secondary when
\* it holds only ASD, AD, SUB or REP; Vacant otherwise, and for a missing,
\* empty or NaN value.
C1_Text ==
    IF fn_args.col_bal_type = None \/ fn_args.row[fn_args.col_bal_type].k = "nan"
    THEN <<>>
    ELSE upper(astype_str(fn_args.row[fn_args.col_bal_type]))

C1_HasPrimary ==
    \E kw \in { <<"M","D">>, <<"D","E","A","L","E","R">>, <<"B","R","A","N","C","H">>, <<"B","R">> } : contains(C1_Text, kw)

C1_HasSecondary ==
    \E kw \in { <<"A","S","D">>, <<"A","D">>, <<"S","U","B">>, <<"R","E","P">> } : contains(C1_Text, kw)

C1_ClassifyTotal ==
    pc = "ret" =>
        /\ fn_ret \in {"Primary", "Secondary", "Vacant"}
        /\ C1_HasPrimary => fn_ret = "Primary"
        /\ (~ C1_HasPrimary /\ C1_HasSecondary) => fn_ret = "Secondary"
        /\ (~ C1_HasPrimary /\ ~ C1_HasSecondary) => fn_ret = "Vacant"
        /\ C1_Text = <<>> => fn_ret = "Vacant"

\* a text with a Secondary keyword and a Primary one has been classified Primary
C1_Witness ==
    pc = "ret" /\ C1_HasPrimary /\ C1_HasSecondary /\ fn_ret = "Primary"

\* ---------------------------------------------------------------------
\* C2: in every stratification block of a town's scorecard, the Total row's
\* BAL count is the sum of the Primary, Secondary and Vacant store counts and
\* is the number of non-closed records of the town in that stratification.
C2_CountsPartitionActive ==
    \A k \in BlocksDone :
        /\ CellNum(BlockRow(k, 4)[3]) = Cardinality(ActiveRecords(k))
        /\ CellNum(BlockRow(k, 1)[3]) + CellNum(BlockRow(k, 2)[3])
             + CellNum(BlockRow(k, 3)[3]) = Cardinality(ActiveRecords(k))

\* a block that counts an active record while a closed record of the same
\* stratification is left out
C2_Witness ==
    \E k \in BlocksDone :
        /\ CellNum(BlockRow(k, 4)[3]) >= 1
        /\ \E j \in 1..Len(t_df.rows) :
              IsClosedRecord(t_df.rows[j]) /\ InStratification(t_df.rows[j], k)

\* ---------------------------------------------------------------------
\* C3 (as amended): records marked closed never contribute to a scorecard
\* aggregate of their town (the scorecard is the one the town's records give
\* with the closed ones taken away), and never appear in the Network Plan
\* either, which is built from the same closed-filtered dataframe.
C3_OpenRows ==
    LET Open(r) == ~ IsClosedRecord(r) IN SelectSeq(t_df.rows, Open)

C3_ScorecardIgnoresClosed ==
    pc = "network" =>
        \A open \in {C3_OpenRows} :
            \A k \in 1..4 :
                \A block \in {strat_block(open, col, StratNames[k])} :
                    \A r \in 1..5 : BlockRow(k, r) = block[r]

C4_MissingStratReported ==
    (pc = "done" /\ col.strat = None /\ unique_towns # <<>>) =>
        /\ \A e \in 1..Len(zip_file) :
              \A t \in 1..Len(unique_towns) : zip_file[e].name # unique_towns[t]
        /\ \E m \in 1..Len(st_messages) : st_messages[m].kind = "error"

\* ---------------------------------------------------------------------
\* C5: once the stratification loop is over the scorecard, and the Scorecard
\* sheet of the workbook written from it, holds exactly four
\* blocks, Large Town, Small Town, Rural, Deep Rural in that order, each of
\* the rows Primary, Secondary, Vacant, Total and a blank spacer, the
\* stratification name on the first row only; a stratification without
\* records has all-zero buckets.
C5_Labels == << <<"P","r","i"," ","S","t","o","r","e">>, <<"A","S","D">>, <<"V","a","c","a","n","t">>, <<"T","o","t","a","l">> >>

C5_FixedShape ==
    pc \in {"network", "excel", "returned"} /\ col.strat # None =>
        /\ pc = "returned" => data.kind = "xlsx" /\ data.Scorecard = scorecard_rows
        /\ Len(scorecard_rows) = 20
        /\ \A k \in 1..4 :
              /\ \A r \in 1..5 : Len(BlockRow(k, r)) = 19
              /\ BlockRow(k, 1)[1] = Str(StratNames[k])
              /\ \A r \in 2..4 : BlockRow(k, r)[1] = Blank
              /\ \A r \in 1..4 : BlockRow(k, r)[2] = Str(C5_Labels[r])
              /\ \A x \in 1..19 : BlockRow(k, 5)[x] = Blank
              /\ ActiveRecords(k) = {} =>
                    \A r \in 1..4 : \A x \in 3..19 :
                        BlockRow(k, r)[x] \in {Num(0), Blank}

\* a finished scorecard with one stratification holding records and another
\* holding none
C5_Witness ==
    /\ pc = "network"
    /\ \E k \in 1..4 : ActiveRecords(k) = {} /\ BlockRow(k, 4)[3] = Num(0)
    /\ \E k \in 1..4 : ActiveRecords(k) # {}

\* ---------------------------------------------------------------------
\* C6 (as amended): the Vacant row's post-appointment unique location gap is
\* blank when the bucket's unique location gap is zero, and otherwise
\* max(0, unique location gap - all the additions of the stratification,
\* those of the Primary and Secondary buckets included); it is never negative.
C6_BlockAdditions(k) ==
    CellNum(BlockRow(k, 1)[14]) + CellNum(BlockRow(k, 1)[15])
      + CellNum(BlockRow(k, 2)[14]) + CellNum(BlockRow(k, 2)[15])
      + CellNum(BlockRow(k, 3)[14]) + CellNum(BlockRow(k, 3)[15])

C6_PostGapFromBlockAdditions ==
    \A k \in BlocksDone :
        /\ CellNum(BlockRow(k, 3)[7]) = 0 => BlockRow(k, 3)[19] = Blank
        /\ CellNum(BlockRow(k, 3)[7]) > 0 =>
              BlockRow(k, 3)[19] =
                 Num(IF CellNum(BlockRow(k, 3)[7]) > C6_BlockAdditions(k)
                     THEN CellNum(BlockRow(k, 3)[7]) - C6_BlockAdditions(k)
                     ELSE 0)
        /\ CellNum(BlockRow(k, 3)[19]) >= 0

\* a Vacant bucket with gap 1 and two additions reports 0
C6_Witness ==
    \E k \in BlocksDone :
        /\ BlockRow(k, 3)[7] = Num(1)
        /\ C6_BlockAdditions(k) >= 2
        /\ BlockRow(k, 3)[19] = Num(0)

\* C6 as first stated: the Vacant bucket's post gap is max(0, its own gap -
\* its own addition_primary - its own addition_secondary).
C6_Original ==
    \A k \in BlocksDone :
        CellNum(BlockRow(k, 3)[19]) =
            IF CellNum(BlockRow(k, 3)[7])
                  > CellNum(BlockRow(k, 3)[14]) + CellNum(BlockRow(k, 3)[15])
            THEN CellNum(BlockRow(k, 3)[7])
                   - (CellNum(BlockRow(k, 3)[14]) + CellNum(BlockRow(k, 3)[15]))
            ELSE 0

\* ---------------------------------------------------------------------
\* C7 (as amended): the resolver returns the first column, in header order,
\* whose name contains any of the keyword variants, case-insensitively; the
\* order of the variants gives no priority; it returns None exactly when no
\* header contains any variant.
C7_Matches(c, x) ==
    contains(lower(fn_args.columns[c]), lower(fn_args.keywords[x]))

C7_Matching ==
    {c \in 1..Len(fn_args.columns) :
        \E x \in 1..Len(fn_args.keywords) : C7_Matches(c, x)}

C7_FirstHeaderWins ==
    pc = "ret" =>
        /\ fn_ret = None <=> C7_Matching = {}
        /\ fn_ret # None =>
              /\ fn_ret \in C7_Matching
              /\ \A c \in 1..(fn_ret - 1) : c \notin C7_Matching

\* a header matching only a later variant stands before a header matching an
\* earlier variant, and is the one resolved
C7_Witness ==
    /\ pc = "ret"
    /\ fn_ret # None
    /\ \E a \in 1..Len(fn_args.columns), x, y \in 1..Len(fn_args.keywords) :
          /\ x < y
          /\ fn_ret < a
          /\ C7_Matches(a, x)
          /\ C7_Matches(fn_ret, y)
          /\ \A z \in 1..(y - 1) : ~ C7_Matches(fn_ret, z)

\* C7 as first stated: when one header matches an earlier variant and a
\* different header matches only a later variant, the latter is not the
\* column resolved, whatever the positions of the two.
C7_Original ==
    pc = "ret" =>
        /\ fn_ret = None <=> C7_Matching = {}
        /\ \A a, b \in 1..Len(fn_args.columns) :
              \A x, y \in 1..Len(fn_args.keywords) :
                  (/\ a # b
                   /\ x < y
                   /\ C7_Matches(a, x)
                   /\ C7_Matches(b, y)
                   /\ \A z \in 1..(y - 1) : ~ C7_Matches(b, z))
                      => fn_ret # b

\* ---------------------------------------------------------------------
\* C8: in every bucket the TVS primary and secondary counts are the numbers
\* of records of the bucket whose TVS store-type text the classifier puts in
\* Primary, respectively Secondary; no record is counted in both and their
\* sum never exceeds the bucket's store count.
C8_TvsClass(j) == classify_row_bucket(t_df.rows[j].cells, col.tvs_type)

C8_TvsCountsByClassifier ==
    \A k \in BlocksDone : \A r \in 1..3 :
        /\ CellNum(BlockRow(k, r)[4])
             = Cardinality({j \in BucketRecords(k, r) : C8_TvsClass(j) = "Primary"})
        /\ CellNum(BlockRow(k, r)[5])
             = Cardinality({j \in BucketRecords(k, r) : C8_TvsClass(j) = "Secondary"})
        /\ CellNum(BlockRow(k, r)[4]) + CellNum(BlockRow(k, r)[5])
             <= CellNum(BlockRow(k, r)[3])

\* ---------------------------------------------------------------------
\* C9: for every bucket the reported post-network count is the bucket's
\* store count plus its addition_primary plus its addition_secondary.
C9_PostNetworkCount ==
    \A k \in BlocksDone : \A r \in 1..3 :
        BlockRow(k, r)[18] =
            Num(CellNum(BlockRow(k, r)[3]) + CellNum(BlockRow(k, r)[14])
                  + CellNum(BlockRow(k, r)[15]))

\* ---------------------------------------------------------------------
\* C10: each count and volume cell of the Total row is the sum of the same
\* cell over the Primary, Secondary and Vacant rows, a blank counting as zero.
C10_SummedCells == {3, 4, 5, 6, 7, 8, 9, 11, 12, 14, 15, 18}

C10_TotalRowSums ==
    \A k \in BlocksDone : \A x \in C10_SummedCells :
        CellNum(BlockRow(k, 4)[x]) =
            CellNum(BlockRow(k, 1)[x]) + CellNum(BlockRow(k, 2)[x])
              + CellNum(BlockRow(k, 3)[x])

====
